---- MODULE Spec2Model ----
(***************************************************************************)
(* Model of src/app.py: a Streamlit script that is re-executed top to      *)
(* bottom on every user interaction.  One execution of the script for a    *)
(* browser session is a "run".  A run is modelled as three consecutive     *)
(* steps (ScriptHead, LoadDatabase, Chat); the cuts are the places where   *)
(* the script thread of another session of the same process can be         *)
(* scheduled, which matters only for the process-wide environment.         *)
(*                                                                         *)
(* st.session_state.messages is the only value of a session surviving      *)
(* between runs; os.environ is shared by all sessions of the process.      *)
(***************************************************************************)
EXTENDS Integers, Sequences, FiniteSets, TLC

\* ------------------------------------------------------------------ bounds
\* Longest session log explored with one session (Spec).
MaxLog == 7
\* Longest session log explored with two concurrent sessions (SpecConc).
MaxLogConc == 3

\* ------------------------------------------------------------- value sets
\* Python's None.
None == "<None>"

Sessions == {1, 2}

\* Values of the password field (line 31); "" is the untouched field.
Keys == {"", "gsk_A", "gsk_B"}

\* The uploader's value (line 34): nothing, or a file named by its content.
Files == {None, "valid.sql", "invalid_statement.sql", "undecodable.sql"}

\* Values returned by st.chat_input (line 111): None unless just submitted.
TypedQuestions == {"how many users"}

\* What recognize_google can do with the captured audio (lines 42-58), plus
\* the microphone failing to open.
HeardTexts == {"", "list users"}
VoiceOutcomes == {"no_microphone", "UnknownValueError", "RequestError"} \cup HeardTexts

\* Candidate queries the model can return for the loaded database.
GoodQuery == "SELECT COUNT(*) FROM users"
BadQuery == "SELECT * FROM nonexistent"
Queries == {GoodQuery, BadQuery}
\* Outcomes of lines 127-128: the schema call raises, the model call raises,
\* or the model returns text.
ModelOutcomes == {"schema_error", "model_error"} \cup Queries

\* Outcomes of pyttsx3 (lines 65-68).
TtsOutcomes == {"ok", "error"}

\* Values of the USE_VOICE environment variable; None is "not set".
VoiceFlags == {None, "True", "False", "true"}

\* ---------------------------------------------------------- pure helpers
\* Python truthiness of an Optional[str].
Truthy(x) == x # None /\ x # ""

\* The flag compared without regard to case.
use_voice_of_AnyCase(flag) ==
    (IF flag = None THEN "True" ELSE flag) \in {"True", "true"}

\* line 37: os.getenv("USE_VOICE", "True") == "True"
use_voice_of(flag) == (IF flag = None THEN "True" ELSE flag) = "True"

\* The notice text handed back as if it were the utterance.
get_voice_input_ReturnsNotice(uv, heard) ==
    IF uv
    THEN IF heard = "no_microphone"
         THEN [ret |-> None, mic |-> TRUE, raised |-> TRUE, notice |-> None]
         ELSE IF heard = "UnknownValueError"
         THEN [ret |-> "Could not understand the audio. Try again.", mic |-> TRUE,
               raised |-> FALSE, notice |-> "warning"]
         ELSE IF heard = "RequestError"
         THEN [ret |-> "Error with Google Speech Recognition API.", mic |-> TRUE,
               raised |-> FALSE, notice |-> "error"]
         ELSE [ret |-> heard, mic |-> TRUE, raised |-> FALSE, notice |-> "success"]
    ELSE [ret |-> None, mic |-> FALSE, raised |-> FALSE, notice |-> None]

\* lines 40-60
get_voice_input(uv, heard) ==
    IF uv
    THEN IF heard = "no_microphone"
         THEN [ret |-> None, mic |-> TRUE, raised |-> TRUE, notice |-> None]
         ELSE IF heard = "UnknownValueError"
         THEN [ret |-> None, mic |-> TRUE, raised |-> FALSE, notice |-> "warning"]
         ELSE IF heard = "RequestError"
         THEN [ret |-> None, mic |-> TRUE, raised |-> FALSE, notice |-> "error"]
         ELSE [ret |-> heard, mic |-> TRUE, raised |-> FALSE, notice |-> "success"]
    ELSE [ret |-> None, mic |-> FALSE, raised |-> FALSE, notice |-> None]

\* lines 63-70
speak_text(uv, text, tts) ==
    IF uv
    THEN IF tts = "ok"
         THEN [played |-> text, raised |-> FALSE, attempted |-> TRUE]
         ELSE [played |-> None, raised |-> TRUE, attempted |-> TRUE]
    ELSE [played |-> None, raised |-> FALSE, attempted |-> FALSE]

\* Python's seq[-n:] for n > 0.
SliceLast(seq, n) ==
    LET start == IF Len(seq) - n > 0 THEN Len(seq) - n ELSE 0
    IN  [i \in 1..(Len(seq) - start) |-> seq[start + i]]

\* messages[:5], the oldest five instead of the newest.
recent_Oldest(messages) ==
    [i \in 1..(IF Len(messages) < 5 THEN Len(messages) ELSE 5) |-> messages[i]]

\* line 104: st.session_state.messages[-5:]
recent(messages) == SliceLast(messages, 5)

\* line 130 (the code fence is written ''' here)
response_message(query) == "Here is your SQL query:\n'''sql\n" \o query \o "\n'''"

\* line 139
spoken_message(query) == "Here is your SQL query: " \o query

\* line 142
error_message == " Ask more questions about your database."

\* lines 82-92: the first failing statement decides the error.
LoadResult(file, storeOk) ==
    IF ~storeOk THEN "unable to open database file"
    ELSE IF file = "undecodable.sql" THEN "'utf-8' codec can't decode byte"
    ELSE IF file = "invalid_statement.sql" THEN "near \"SELEC\": syntax error"
    ELSE "ok"

\* line 136: db.run(query) raises unless the query fits the loaded database.
db_run_ok(query) == query = GoodQuery

Turn(role, content) == [role |-> role, content |-> content]

IsPrefix(a, b) == Len(a) <= Len(b) /\ \A i \in 1..Len(a) : a[i] = b[i]

\* ------------------------------------------------------------------ state
VARIABLES
    environ,     \* os.environ.get("GROQ_API_KEY"), process-wide
    USE_VOICE,   \* os.environ.get("USE_VOICE"), process-wide
    sess         \* per session: session_state, the run's locals, what the run did

vars == <<environ, USE_VOICE, sess>>

\* What a run has done so far; reset when the next run of the session starts.
FreshRun ==
    [ installed |-> FALSE,        \* line 78 executed
      infoShown |-> FALSE,        \* line 152
      setupError |-> None,        \* line 149, the text of e
      loaded |-> FALSE,           \* line 100
      replayed |-> FALSE,         \* lines 103-106 executed
      rendered |-> <<>>,          \* the turns they rendered
      inputShown |-> FALSE,       \* line 111
      speakOffered |-> FALSE,     \* line 115
      voiceCalled |-> FALSE,      \* line 116
      voiceReturn |-> None,
      voiceNotice |-> None,
      micAccessed |-> FALSE,      \* line 44
      source |-> None,            \* where user_question came from
      user_question |-> None,
      asked |-> FALSE,            \* line 121 executed
      translatorInvoked |-> FALSE,\* line 128
      callKey |-> None,           \* credential the model call carried
      logAtInvoke |-> <<>>,       \* the log when line 128 was reached
      queryExecuted |-> FALSE,    \* line 136
      execFailed |-> FALSE,
      logAtExec |-> <<>>,         \* the log when line 136 was reached
      resultShown |-> FALSE,      \* line 137
      ttsAttempted |-> FALSE,     \* line 66
      spoke |-> None,             \* text played by line 67-68
      fallbackShown |-> FALSE ]   \* lines 142-146

InitSession ==
    [ hasMessages |-> FALSE,      \* "messages" in st.session_state
      messages |-> <<>>,
      created |-> 0,              \* times line 74 ran
      processed |-> 0,            \* questions that reached line 121
      pc |-> "idle",
      groq_api_key |-> "",
      uploaded_file |-> None,
      typed |-> None,
      clicked |-> FALSE,
      use_voice |-> FALSE,
      llmKey |-> None,            \* credential held by the ChatGroq client
      logAtStart |-> <<>>,          \* the log when the current run started
      run |-> FreshRun ]

Init ==
    /\ environ = None
    /\ USE_VOICE \in VoiceFlags
    /\ sess = [s \in Sessions |-> InitSession]

\* ---------------------------------------------------------------- actions
\* Line 74 without the membership test of line 73: the log is recreated by every run.
ScriptHeadResult_AlwaysCreate(env, flag, r, key, file, typed, clicked) ==
    LET r2 == [r EXCEPT !.groq_api_key = key, !.uploaded_file = file,
                        !.typed = typed, !.clicked = clicked,
                        !.use_voice = use_voice_of(flag),
                        !.llmKey = None,
                        !.logAtStart = r.messages,
                        !.run = FreshRun,
                        !.hasMessages = TRUE, !.messages = <<>>,
                        !.created = IF @ < 2 THEN @ + 1 ELSE @]
    IN  IF Truthy(key)
        THEN [env |-> key,
              r |-> [r2 EXCEPT !.run.installed = TRUE,
                               !.pc = IF Truthy(file) THEN "load" ELSE "idle"]]
        ELSE [env |-> env,
              r |-> [r2 EXCEPT !.run.infoShown = TRUE, !.pc = "idle"]]

\* Line 80 reached without the credential test of line 77.
ScriptHeadResult_NoCredentialGate(env, flag, r, key, file, typed, clicked) ==
    LET r1 == [r EXCEPT !.groq_api_key = key, !.uploaded_file = file,
                        !.typed = typed, !.clicked = clicked,
                        !.use_voice = use_voice_of(flag),
                        !.llmKey = None,
                        !.logAtStart = r.messages,
                        !.run = FreshRun]
        r2 == IF ~r1.hasMessages
              THEN [r1 EXCEPT !.hasMessages = TRUE, !.messages = <<>>, !.created = @ + 1]
              ELSE r1
    IN  [env |-> IF Truthy(key) THEN key ELSE env,
         r |-> [r2 EXCEPT !.run.installed = Truthy(key),
                          !.pc = IF Truthy(file) THEN "load" ELSE "idle"]]

\* lines 31-78 and 151-152.  The inputs are the widget values of this run: a
\* submitted chat input or a click on Speak exists only if the previous run
\* rendered that widget, and each triggers a run of its own.
ScriptHeadResult(env, flag, r, key, file, typed, clicked) ==
    LET r1 == [r EXCEPT !.groq_api_key = key, !.uploaded_file = file,
                        !.typed = typed, !.clicked = clicked,
                        !.use_voice = use_voice_of(flag),
                        !.llmKey = None,
                        !.logAtStart = r.messages,
                        !.run = FreshRun]
        r2 == IF ~r1.hasMessages
              THEN [r1 EXCEPT !.hasMessages = TRUE, !.messages = <<>>, !.created = @ + 1]
              ELSE r1
    IN  IF Truthy(key)
        THEN [env |-> key,
              r |-> [r2 EXCEPT !.run.installed = TRUE,
                               !.pc = IF Truthy(file) THEN "load" ELSE "idle"]]
        ELSE [env |-> env,
              r |-> [r2 EXCEPT !.run.infoShown = TRUE, !.pc = "idle"]]

ScriptHead(s, cap) ==
    /\ sess[s].pc = "idle"
    /\ \E key \in Keys, file \in Files, typed \in TypedQuestions \cup {None}, clicked \in BOOLEAN :
          /\ typed # None => sess[s].run.inputShown /\ ~clicked
          /\ clicked => sess[s].run.speakOffered
          /\ (typed # None \/ clicked) => Len(sess[s].messages) + 3 <= cap
          /\ LET res == ScriptHeadResult(environ, USE_VOICE, sess[s], key, file, typed, clicked)
             IN  /\ environ' = res.env
                 /\ sess' = [sess EXCEPT ![s] = res.r]
    /\ UNCHANGED USE_VOICE

\* The setup error is reported but the script goes on to the chat section.
LoadDatabaseResult_GoesOn(env, r, storeOk) ==
    LET outcome == LoadResult(r.uploaded_file, storeOk)
    IN  IF outcome # "ok"
        THEN [r EXCEPT !.llmKey = env, !.run.setupError = outcome, !.pc = "chat"]
        ELSE [r EXCEPT !.llmKey = env, !.run.loaded = TRUE, !.pc = "chat"]

\* lines 80-98 and 148-149
LoadDatabaseResult(env, r, storeOk) ==
    LET outcome == LoadResult(r.uploaded_file, storeOk)
    IN  IF outcome # "ok"
        THEN [r EXCEPT !.run.setupError = outcome, !.pc = "idle"]
        ELSE [r EXCEPT !.llmKey = env, !.run.loaded = TRUE, !.pc = "chat"]

LoadDatabase(s) ==
    /\ sess[s].pc = "load"
    /\ \E storeOk \in BOOLEAN :
          sess' = [sess EXCEPT ![s] = LoadDatabaseResult(environ, sess[s], storeOk)]
    /\ UNCHANGED <<environ, USE_VOICE>>

\* No per-question handler: the exception reaches line 148.
Fallback_Escapes(r) ==
    [r EXCEPT !.run.setupError = "no such table"]

\* lines 141-146: the per-question handler.
Fallback(r) ==
    [r EXCEPT !.messages = Append(@, Turn("assistant", error_message)),
              !.run.fallbackShown = TRUE]

\* lines 126-146: the try block, statement by statement; any raise goes to
\* Fallback with what was done before it kept.
TryAnswer(r, model, tts) ==
    IF model = "schema_error"
    THEN Fallback(r)
    ELSE LET r1 == [r EXCEPT !.run.translatorInvoked = TRUE,
                             !.run.callKey = r.llmKey,
                             !.run.logAtInvoke = r.messages]
         IN  IF model = "model_error"
             THEN Fallback(r1)
             ELSE LET query == model
                      r2 == [r1 EXCEPT !.messages = Append(@, Turn("assistant", response_message(query)))]
                      r3 == [r2 EXCEPT !.run.queryExecuted = TRUE,
                                       !.run.logAtExec = r2.messages]
                  IN  IF ~db_run_ok(query)
                      THEN Fallback([r3 EXCEPT !.run.execFailed = TRUE])
                      ELSE LET sp == speak_text(r.use_voice, spoken_message(query), tts)
                               r4 == [r3 EXCEPT !.run.resultShown = TRUE,
                                                !.run.ttsAttempted = sp.attempted,
                                                !.run.spoke = sp.played]
                           IN  IF sp.raised THEN Fallback(r4) ELSE r4

\* The user turn of line 121 is not recorded.
AnswerQuestion_NoUserTurn(r, model, tts) ==
    IF Truthy(r.run.user_question)
    THEN TryAnswer([r EXCEPT !.processed = @ + 1, !.run.asked = TRUE], model, tts)
    ELSE r

\* lines 120-146
AnswerQuestion(r, model, tts) ==
    IF Truthy(r.run.user_question)
    THEN TryAnswer([r EXCEPT !.messages = Append(@, Turn("user", r.run.user_question)),
                             !.processed = @ + 1,
                             !.run.asked = TRUE],
                   model, tts)
    ELSE r

\* lines 100-149: replay, input widgets, voice, question handling.
ChatResult(r, heard, model, tts) ==
    LET r1 == [r EXCEPT !.run.replayed = TRUE,
                        !.run.rendered = recent(r.messages),
                        !.run.inputShown = TRUE,
                        !.run.user_question = r.typed,
                        !.run.source = IF r.typed # None THEN "typed" ELSE None]
    IN  IF r.use_voice
        THEN LET r2 == [r1 EXCEPT !.run.speakOffered = TRUE]
             IN  IF r.clicked
                 THEN LET v == get_voice_input(r.use_voice, heard)
                          r3 == [r2 EXCEPT !.run.voiceCalled = TRUE,
                                           !.run.voiceReturn = v.ret,
                                           !.run.voiceNotice = v.notice,
                                           !.run.micAccessed = v.mic]
                      IN  IF v.raised
                          THEN [r3 EXCEPT !.run.setupError = "No Default Input Device Available",
                                          !.pc = "idle"]
                          ELSE IF Truthy(v.ret)
                          THEN AnswerQuestion([r3 EXCEPT !.run.user_question = v.ret,
                                                         !.run.source = "voice",
                                                         !.pc = "idle"],
                                              model, tts)
                          ELSE AnswerQuestion([r3 EXCEPT !.pc = "idle"], model, tts)
                 ELSE AnswerQuestion([r2 EXCEPT !.pc = "idle"], model, tts)
        ELSE AnswerQuestion([r1 EXCEPT !.pc = "idle"], model, tts)

Chat(s) ==
    /\ sess[s].pc = "chat"
    /\ \E heard \in VoiceOutcomes, model \in ModelOutcomes, tts \in TtsOutcomes :
          sess' = [sess EXCEPT ![s] = ChatResult(sess[s], heard, model, tts)]
    /\ UNCHANGED <<environ, USE_VOICE>>

\* ---------------------------------------------------------- specifications
\* One browser session.
Next ==
    \/ ScriptHead(1, MaxLog)
    \/ LoadDatabase(1)
    \/ Chat(1)

Spec == Init /\ [][Next]_vars

\* Two browser sessions served by the same process, one script thread each.
\* This is the hosted deployment, where the voice flag is switched off
\* (comments at lines 37, 39 and 62).
InitConc ==
    /\ environ = None
    /\ USE_VOICE = "False"
    /\ sess = [s \in Sessions |-> InitSession]

NextConc ==
    \E s \in Sessions :
        \/ ScriptHead(s, MaxLogConc)
        \/ LoadDatabase(s)
        \/ Chat(s)

SpecConc == InitConc /\ [][NextConc]_vars

\* ------------------------------------------------------------------ claims
Last(seq) == seq[Len(seq)]

SubSeqFrom(seq, k) == [i \in 1..(Len(seq) - k) |-> seq[k + i]]

Min(a, b) == IF a < b THEN a ELSE b

FallbackTurn == Turn("assistant", error_message)

ResponseTurns == {Turn("assistant", response_message(q)) : q \in Queries}

LoadErrors == {LoadResult(f, ok) : f \in Files \ {None}, ok \in BOOLEAN} \ {"ok"}

\* C1: a candidate query whose execution fails does not reach the setup-failure
\* handler; the fallback message becomes the last assistant turn of the log, and
\* every entry the log held when the execution started is still there, unchanged
\* and at the same position.
C1_ExecFailureContained ==
    \A s \in Sessions :
        sess[s].run.execFailed =>
            /\ sess[s].run.setupError = None
            /\ sess[s].run.fallbackShown
            /\ Len(sess[s].messages) = Len(sess[s].run.logAtExec) + 1
            /\ IsPrefix(sess[s].run.logAtExec, sess[s].messages)
            /\ IsPrefix(sess[s].logAtStart, sess[s].run.logAtExec)
            /\ Last(sess[s].messages) = FallbackTurn

C1_Witness ==
    /\ sess[1].run.execFailed
    /\ Len(sess[1].logAtStart) >= 2
    /\ sess[1].pc = "idle"

\* C2: the session log is append-only across runs of every kind: it is created
\* empty exactly once, every step leaves the old log a prefix of the new one, the
\* log at the start of a run is a prefix of the log at any later point of the run,
\* and a log that exists is never recreated.
C2_AppendOnly ==
    [][\A s \in Sessions :
          /\ IsPrefix(sess[s].messages, sess'[s].messages)
          /\ IsPrefix(sess'[s].logAtStart, sess'[s].messages)
          /\ sess'[s].created <= 1
          /\ sess[s].hasMessages => (sess'[s].hasMessages /\ sess'[s].created = sess[s].created)
          /\ (~sess[s].hasMessages /\ sess'[s].hasMessages) =>
                (sess'[s].messages = <<>> /\ sess'[s].created = 1)]_vars

C2_Witness ==
    /\ sess[1].pc = "idle"
    /\ Len(sess[1].logAtStart) >= 3
    /\ Len(sess[1].messages) > Len(sess[1].logAtStart)
    /\ sess[1].created = 1

\* C3: for a log of length L at the start of a run, the replay renders exactly its
\* last min(5, L) turns in their original order, and the older turns stay stored.
C3_ReplayLastFive ==
    \A s \in Sessions :
        sess[s].run.replayed =>
            LET L == Len(sess[s].logAtStart)
                k == Min(5, L)
            IN  /\ Len(sess[s].run.rendered) = k
                /\ \A i \in 1..k : sess[s].run.rendered[i] = sess[s].logAtStart[L - k + i]
                /\ IsPrefix(sess[s].logAtStart, sess[s].messages)

C3_Witness ==
    /\ sess[1].run.replayed
    /\ Len(sess[1].logAtStart) >= 6
    /\ sess[1].logAtStart[1] # sess[1].logAtStart[6]

\* C4: with USE_VOICE set to anything but the exact string "True", in every run
\* get_voice_input returns None without touching the microphone, speak_text plays
\* nothing, the Speak control is not offered, and a question can only be typed.
C4_VoiceOff ==
    (USE_VOICE # None /\ USE_VOICE # "True") =>
        /\ \A heard \in VoiceOutcomes :
              /\ get_voice_input(use_voice_of(USE_VOICE), heard).ret = None
              /\ ~get_voice_input(use_voice_of(USE_VOICE), heard).mic
        /\ \A q \in Queries, tts \in TtsOutcomes :
              /\ speak_text(use_voice_of(USE_VOICE), spoken_message(q), tts).played = None
              /\ ~speak_text(use_voice_of(USE_VOICE), spoken_message(q), tts).attempted
        /\ \A s \in Sessions :
              /\ ~sess[s].run.micAccessed
              /\ ~sess[s].run.voiceCalled
              /\ ~sess[s].run.ttsAttempted
              /\ sess[s].run.spoke = None
              /\ ~sess[s].run.speakOffered
              /\ sess[s].run.source # "voice"
              /\ sess[s].run.asked =>
                    (sess[s].run.user_question = sess[s].typed /\ sess[s].typed # None)

C4_Witness ==
    /\ USE_VOICE = "true"
    /\ sess[1].run.resultShown
    /\ sess[1].run.asked

\* C5: when loading the uploaded script fails, the run reports the setup error
\* with the underlying error text and stops: no translator call, no query, no
\* speech, and the log is exactly what it was when the run started.
C5_LoadFailureHalts ==
    \A s \in Sessions :
        (sess[s].run.installed /\ Truthy(sess[s].uploaded_file)
            /\ sess[s].pc # "load" /\ ~sess[s].run.loaded) =>
            /\ sess[s].run.setupError \in LoadErrors
            /\ \E ok \in BOOLEAN :
                  sess[s].run.setupError = LoadResult(sess[s].uploaded_file, ok)
            /\ sess[s].pc = "idle"
            /\ ~sess[s].run.replayed
            /\ ~sess[s].run.translatorInvoked
            /\ ~sess[s].run.queryExecuted
            /\ ~sess[s].run.ttsAttempted
            /\ sess[s].run.spoke = None
            /\ sess[s].messages = sess[s].logAtStart

C5_Witness ==
    /\ sess[1].run.setupError = LoadResult("invalid_statement.sql", TRUE)
    /\ ~sess[1].run.loaded
    /\ Len(sess[1].messages) >= 2

\* C6: the translator is invoked only in a run that was given a non-empty API
\* key, installed it into GROQ_API_KEY earlier in the run and loaded the script;
\* a run with an empty credential loads nothing, appends nothing, calls nothing.
C6_NoCallWithoutCredential ==
    \A s \in Sessions :
        /\ sess[s].run.translatorInvoked =>
              /\ Truthy(sess[s].groq_api_key)
              /\ sess[s].run.installed
              /\ sess[s].run.loaded
              /\ sess[s].run.callKey # None
        /\ ~Truthy(sess[s].groq_api_key) =>
              /\ sess[s].pc = "idle"
              /\ ~sess[s].run.installed
              /\ ~sess[s].run.loaded
              /\ sess[s].run.setupError = None
              /\ ~sess[s].run.translatorInvoked
              /\ ~sess[s].run.queryExecuted
              /\ sess[s].messages = sess[s].logAtStart

C6_Witness ==
    /\ sess[1].run.translatorInvoked
    /\ sess[1].run.installed
    /\ sess[1].run.callKey = "gsk_B"

\* C7: a voice failure of either kind is non-fatal and leaves the question unset:
\* get_voice_input returns None, no user turn is appended, the translator is not
\* invoked and no query is executed in that run.  Non-empty recognised text is
\* the question of the turn.
C7_VoiceFailureLeavesQuestionUnset ==
    \A s \in Sessions :
        /\ (sess[s].run.voiceCalled /\ sess[s].run.voiceNotice \in {"warning", "error"}) =>
              /\ sess[s].run.voiceReturn = None
              /\ sess[s].run.setupError = None
              /\ sess[s].run.user_question = None
              /\ ~sess[s].run.asked
              /\ ~sess[s].run.translatorInvoked
              /\ ~sess[s].run.queryExecuted
              /\ sess[s].messages = sess[s].logAtStart
              /\ sess[s].run.inputShown
        /\ (sess[s].run.voiceCalled /\ Truthy(sess[s].run.voiceReturn)) =>
              /\ sess[s].run.asked
              /\ sess[s].run.user_question = sess[s].run.voiceReturn
              /\ Len(sess[s].messages) > Len(sess[s].logAtStart)
              /\ sess[s].messages[Len(sess[s].logAtStart) + 1]
                    = Turn("user", sess[s].run.voiceReturn)

C7_Witness ==
    /\ sess[1].run.voiceCalled
    /\ sess[1].run.voiceNotice = "error"
    /\ sess[1].run.micAccessed
    /\ Len(sess[1].logAtStart) >= 2

\* C8: the fallback message is appended for a question only when the schema or
\* model call failed or the candidate query failed to execute; a question whose
\* translation and execution both succeeded (result table displayed) never gets
\* the fallback message, also when speech synthesis is attempted afterwards.
C8_FallbackOnlyOnQuestionFailure ==
    \A s \in Sessions :
        /\ sess[s].run.resultShown => ~sess[s].run.fallbackShown
        /\ sess[s].run.fallbackShown =>
              \/ ~sess[s].run.translatorInvoked
              \/ ~sess[s].run.queryExecuted
              \/ sess[s].run.execFailed

\* C9 as stated: one user turn then exactly one assistant turn per processed
\* question, so that the log of a finished run holds exactly N pairs with roles
\* strictly alternating from user, whatever the outcome of the question.
C9_StrictPairs ==
    \A s \in Sessions :
        sess[s].pc = "idle" =>
            /\ Len(sess[s].messages) = 2 * sess[s].processed
            /\ \A i \in 1..Len(sess[s].messages) :
                  sess[s].messages[i].role = IF i % 2 = 1 THEN "user" ELSE "assistant"

\* C9 amended: a processed question appends one user turn (before the translator
\* is invoked) followed by the response message alone, the fallback message
\* alone, or the response message and then the fallback message; a failing query
\* execution always gives the last form.  After N processed questions the log has
\* N user turns, starts with one, and never has two user turns in a row.
C9_UserThenOneOrTwoAssistant ==
    \A s \in Sessions :
        LET log == sess[s].messages
            L0 == Len(sess[s].logAtStart)
            added == SubSeqFrom(log, L0)
        IN  /\ IsPrefix(sess[s].logAtStart, log)
            /\ Cardinality({i \in 1..Len(log) : log[i].role = "user"}) = sess[s].processed
            /\ \A i \in 1..Len(log) :
                  log[i].role = "user" => (i = Len(log) \/ log[i + 1].role = "assistant")
            /\ (Len(log) > 0) => log[1].role = "user"
            /\ ~sess[s].run.asked => added = <<>>
            /\ sess[s].run.translatorInvoked =>
                  Last(sess[s].run.logAtInvoke) = Turn("user", sess[s].run.user_question)
            /\ (sess[s].run.asked /\ sess[s].pc = "idle") =>
                  /\ Len(added) \in {2, 3}
                  /\ added[1] = Turn("user", sess[s].run.user_question)
                  /\ Len(added) = 2 => added[2] \in ResponseTurns \cup {FallbackTurn}
                  /\ Len(added) = 3 => (added[2] \in ResponseTurns /\ added[3] = FallbackTurn)
                  /\ sess[s].run.execFailed =>
                        (Len(added) = 3 /\ added[2] = Turn("assistant", response_message(BadQuery)))

C9_Witness ==
    /\ sess[1].pc = "idle"
    /\ sess[1].run.execFailed
    /\ sess[1].processed = 2
    /\ Len(sess[1].messages) = 5

\* C10: with two sessions in one process, every model client a session builds and
\* every model call it makes carries the key that session supplied in that run.
C10_CredentialIsolation ==
    \A s \in Sessions :
        /\ sess[s].llmKey # None => sess[s].llmKey = sess[s].groq_api_key
        /\ sess[s].run.translatorInvoked => sess[s].run.callKey = sess[s].groq_api_key

====
